---------------------------- MODULE Spec2Model ----------------------------
(***************************************************************************)
(* Model of aws-creds/src/credentials.rs: the Credentials constructors    *)
(* (new, from_sts_env, from_sts, from_env_specific, from_env,             *)
(* from_profile, from_instance_metadata, anonymous, default) run against  *)
(* a process environment, a filesystem and a network.                     *)
(*                                                                         *)
(* Every external operation of a constructor (an environment lookup, a    *)
(* file read, a home-directory lookup, an HTTP GET) is one step; each     *)
(* step appends an event to the log of the invocation that performed it.  *)
(*                                                                         *)
(* An Option<String> is a tuple of strings: None is <<>>, Some(s) is a    *)
(* non-empty tuple that names where the string came from.                 *)
(***************************************************************************)
EXTENDS Naturals, Sequences, FiniteSets, TLC

VARIABLES
    env,    \* process environment: variable name -> value, <<>> when env::var fails
    files,  \* filesystem: path -> contents (a sequence of one-byte characters), or unreadable
    home,   \* dirs::home_dir(): <<>> for None, else the directory
    ini,    \* what Ini::load_from_file returns for <home>/.aws/credentials
    net,    \* what each endpoint answers to a GET
    proc    \* per invocation: position, arguments, locals, event log, result

vars == <<env, files, home, ini, net, proc>>

world == <<env, files, home, ini, net>>

\* ------------------------------------------------------------------ values

NONE == <<>>

IsSome(x) == x # NONE

EnvNames ==
    { "AWS_ROLE_ARN", "AWS_WEB_IDENTITY_TOKEN_FILE",
      "AWS_ACCESS_KEY_ID", "AWS_SECRET_ACCESS_KEY",
      "AWS_SECURITY_TOKEN", "AWS_SESSION_TOKEN",
      "AWS_CONTAINER_CREDENTIALS_RELATIVE_URI", "MY_VAR" }

\* The value a set variable holds: distinct for distinct variables.
EnvValue(n) == <<"env", n>>

TokenFile == <<"/run/token">>
MissingFile == <<"/run/missing">>
UuidFile == <<"/sys/hypervisor/uuid">>
VendorFile == <<"/sys/class/dmi/id/board_vendor">>

UNREADABLE == <<"unreadable">>

\* File contents are sequences of one-byte characters.
Ec2Uuid == <<"e", "c", "2", "e", "1">>
ShortUuid == <<"e", "c">>
XenUuid == <<"x", "e", "n", "1">>
AmazonVendor == <<"A", "m", "a", "z", "o", "n", " ", "E", "C", "2">>
ShortVendor == <<"A", "m", "a", "z", "o", "n", " ", "E", "C">>
OtherVendor == <<"X", "e", "n">>
TokenText == <<"j", "w", "t">>

\* ------------------------------------------------------------------ records

\* struct Credentials
Credentials(ak, sk, st, ss, ex) ==
    [access_key |-> ak, secret_key |-> sk, security_token |-> st,
     session_token |-> ss, expiration |-> ex]

NoCredentials == Credentials(NONE, NONE, NONE, NONE, NONE)

\* Result<Credentials>: Ok(cred) or Err(err); err names the failure and, for a
\* missing profile field, the field.
Ok(c) == [ok |-> TRUE, cred |-> c, err |-> "", what |-> ""]
Err(kind, what) == [ok |-> FALSE, cred |-> NoCredentials, err |-> kind, what |-> what]


\* ------------------------------------------------------------------ network

\* The document an endpoint serves, as the deserializers see it: each element
\* is Some(value) or None (absent, or not of the required type).  Wrapper
\* stands for the elements of the STS envelope other than the credentials
\* (SubjectFromWebIdentityToken, Audience, AssumedRoleUser, Provider,
\* ResponseMetadata).
Doc(tag, keys) ==
    [k \in {"AccessKeyId", "SecretAccessKey", "Token", "SessionToken",
            "Expiration", "Wrapper"} |-> IF k \in keys THEN <<tag, k>> ELSE NONE]

\* What a GET yields: a transport failure (send() fails), or a response with
\* a text body and the document that body holds.
NetErr == [ok |-> FALSE, text |-> NONE, doc |-> Doc("", {})]
Body(text, doc) == [ok |-> TRUE, text |-> text, doc |-> doc]

Garbage == Body(<<"not found">>, Doc("", {}))

JsonKeys == {"AccessKeyId", "SecretAccessKey", "Token", "Expiration"}
XmlKeys == {"AccessKeyId", "SecretAccessKey", "SessionToken", "Expiration", "Wrapper"}

RoleA == <<"roleA">>
RoleB == <<"roleB">>
RoleNames == {RoleA, RoleB}

StsHost == "sts.amazonaws.com"
EcsHost == "169.254.170.2"
Ec2Host == "169.254.169.254"
RolePath == <<"/latest/meta-data/iam/security-credentials">>

\* The URL from_sts builds: the endpoint and its five query parameters.
StsUrl(role_arn, session_name, web_identity_token) ==
    [host |-> StsHost,
     path |-> <<"/", "Action", "AssumeRoleWithWebIdentity",
                "RoleSessionName">> \o session_name \o <<"RoleArn">> \o role_arn
              \o <<"WebIdentityToken">> \o web_identity_token
              \o <<"Version", "2011-06-15">>]

\* format!("http://169.254.170.2{}", credentials_path)
EcsUrl(credentials_path) == [host |-> EcsHost, path |-> credentials_path]

RoleUrl == [host |-> Ec2Host, path |-> RolePath]

\* format!(".../iam/security-credentials/{}", role)
RoleCredsUrl(role) == [host |-> Ec2Host, path |-> RolePath \o <<"/">> \o role]

\* The answer of the network to a GET of url.
Get(url) ==
    IF url.host = StsHost THEN net.sts
    ELSE IF url.host = EcsHost THEN net.ecs
    ELSE IF url.path = RolePath THEN net.role
    ELSE IF \E r \in RoleNames : url = RoleCredsUrl(r)
         THEN net.creds[CHOOSE r \in RoleNames : url = RoleCredsUrl(r)]
    ELSE Garbage

\* ------------------------------------------------------------------ profile file

SectionNames == {"default", "test"}
KeyNames == {"aws_access_key_id", "aws_secret_access_key",
             "aws_security_token", "aws_session_token"}

\* A loaded file: which sections it has and, per section, which keys.
IniValue(sec, key) == <<"ini", sec, key>>
IniOk(conf) == [status |-> "ok", conf |-> conf]
IniIoError == [status |-> "io", conf |-> [s \in SectionNames |-> [present |-> FALSE, keys |-> {}]]]
IniParseError == [status |-> "parse", conf |-> [s \in SectionNames |-> [present |-> FALSE, keys |-> {}]]]

NoSection == [present |-> FALSE, keys |-> {}]
Section(keys) == [present |-> TRUE, keys |-> keys]

\* ------------------------------------------------------------------ external states

\* The inputs of the env-driven STS reader: the two variables and the endpoint.
StsWorlds ==
    [arn : {NONE, EnvValue("AWS_ROLE_ARN")},
     tf  : {NONE, TokenFile, MissingFile},
     sts : {NetErr, Garbage, Body(<<"xml">>, Doc("sts", XmlKeys \ {"Wrapper"})),
            Body(<<"xml">>, Doc("sts", XmlKeys \ {"Expiration"})),
            Body(<<"xml">>, Doc("sts", XmlKeys))}]

StsDown == [arn |-> NONE, tf |-> NONE, sts |-> NetErr]
StsUp == [arn |-> EnvValue("AWS_ROLE_ARN"), tf |-> TokenFile,
          sts |-> Body(<<"xml">>, Doc("sts", XmlKeys))]

\* The inputs of the environment reader: which of its variables are set.
KeyVars == {"AWS_ACCESS_KEY_ID", "AWS_SECRET_ACCESS_KEY",
            "AWS_SECURITY_TOKEN", "AWS_SESSION_TOKEN", "MY_VAR"}
KeyWorlds == SUBSET KeyVars

KeysDown == {}
KeysUp == {"AWS_ACCESS_KEY_ID", "AWS_SECRET_ACCESS_KEY"}

\* The inputs of the profile reader: the home directory and the loaded file.
\* One section ranges over every set of keys while the other is absent or
\* complete.
HomeDir == <<"/home/user">>

IniFiles ==
    {IniIoError, IniParseError}
    \cup {IniOk([default |-> d, test |-> t]) :
            d \in {NoSection} \cup {Section(k) : k \in SUBSET KeyNames},
            t \in {NoSection, Section(KeyNames)}}
    \cup {IniOk([default |-> d, test |-> t]) :
            d \in {NoSection, Section(KeyNames)},
            t \in {NoSection} \cup {Section(k) : k \in SUBSET KeyNames}}

ProfileWorlds ==
    {[home |-> NONE, ini |-> IniIoError]}
    \cup [home : {HomeDir}, ini : IniFiles]

ProfileDown == [home |-> HomeDir, ini |-> IniIoError]
ProfileUp ==
    [home |-> HomeDir,
     ini |-> IniOk([s \in SectionNames |->
                      Section({"aws_access_key_id", "aws_secret_access_key"})])]

\* The inputs of the instance-metadata reader: the ECS variable, the two probe
\* files and the three endpoints.
UriPath == <<"/v2/credentials/task">>

JsonBody(tag, keys) == Body(<<"json">>, Doc(tag, keys))

Ec2Nets ==
    {[role |-> NetErr, creds |-> [r \in RoleNames |-> JsonBody(r[1], JsonKeys)]]}
    \cup {[role |-> Body(RoleA, Doc("", {})),
           creds |-> [r \in RoleNames |-> IF r = RoleA THEN c ELSE JsonBody(r[1], JsonKeys)]] :
            c \in {NetErr, Garbage, JsonBody("roleA", JsonKeys \ {"Token"}),
                   JsonBody("roleA", JsonKeys)}}
    \cup {[role |-> Body(RoleB, Doc("", {})),
           creds |-> [r \in RoleNames |-> IF r = RoleB THEN c ELSE JsonBody(r[1], JsonKeys)]] :
            c \in {NetErr, JsonBody("roleB", JsonKeys)}}
    \cup {[role |-> Garbage, creds |-> [r \in RoleNames |-> JsonBody(r[1], JsonKeys)]]}

Ec2NetDown == [role |-> NetErr, creds |-> [r \in RoleNames |-> JsonBody(r[1], JsonKeys)]]
Ec2NetUp == [role |-> Body(RoleA, Doc("", {})),
             creds |-> [r \in RoleNames |-> JsonBody(r[1], JsonKeys)]]

UuidContents == {UNREADABLE, Ec2Uuid, ShortUuid, XenUuid}
VendorContents == {UNREADABLE, AmazonVendor, ShortVendor, OtherVendor}

ImdsWorlds ==
    [uri : {NONE}, ecs : {JsonBody("ecs", JsonKeys)},
     uuid : UuidContents, vendor : VendorContents, ec2 : Ec2Nets]
    \cup
    [uri : {UriPath},
     ecs : {NetErr, Garbage, JsonBody("ecs", JsonKeys \ {"Expiration"}),
            JsonBody("ecs", JsonKeys)},
     uuid : {UNREADABLE, Ec2Uuid}, vendor : {UNREADABLE},
     ec2 : {Ec2NetDown, Ec2NetUp}]

ImdsDown == [uri |-> NONE, ecs |-> JsonBody("ecs", JsonKeys),
             uuid |-> UNREADABLE, vendor |-> UNREADABLE, ec2 |-> Ec2NetDown]
ImdsUp == [uri |-> NONE, ecs |-> JsonBody("ecs", JsonKeys),
           uuid |-> Ec2Uuid, vendor |-> UNREADABLE, ec2 |-> Ec2NetUp]

\* The external states explored: the inputs of one reader range over all of
\* its set while the inputs of each other reader are those under which it
\* fails or those under which it succeeds.
Worlds ==
    (StsWorlds \X {KeysDown, KeysUp} \X {ProfileDown, ProfileUp} \X {ImdsDown, ImdsUp})
    \cup ({StsDown, StsUp} \X KeyWorlds \X {ProfileDown, ProfileUp} \X {ImdsDown, ImdsUp})
    \cup ({StsDown, StsUp} \X {KeysDown, KeysUp} \X ProfileWorlds \X {ImdsDown, ImdsUp})
    \cup ({StsDown, StsUp} \X {KeysDown, KeysUp} \X {ProfileDown, ProfileUp} \X ImdsWorlds)

EnvOf(w) ==
    [n \in EnvNames |->
        CASE n = "AWS_ROLE_ARN" -> w[1].arn
          [] n = "AWS_WEB_IDENTITY_TOKEN_FILE" -> w[1].tf
          [] n = "AWS_CONTAINER_CREDENTIALS_RELATIVE_URI" -> w[4].uri
          [] OTHER -> IF n \in w[2] THEN EnvValue(n) ELSE NONE]

FilesOf(w) ==
    [f \in {TokenFile, MissingFile, UuidFile, VendorFile} |->
        CASE f = TokenFile -> TokenText
          [] f = MissingFile -> UNREADABLE
          [] f = UuidFile -> w[4].uuid
          [] f = VendorFile -> w[4].vendor]

NetOf(w) ==
    [sts |-> w[1].sts, ecs |-> w[4].ecs, role |-> w[4].ec2.role,
     creds |-> w[4].ec2.creds]

\* ------------------------------------------------------------------ invocations

Procs == {"p1"}

\* An event of the log: an external operation and whether it succeeded.
Event(kind, name, ok) == [kind |-> kind, name |-> name, ok |-> ok]

EnvRead(n) == Event("env", <<n>>, IsSome(env[n]))
FileRead(f) == Event("file", f, files[f] # UNREADABLE)
HomeLookup == Event("home", NONE, IsSome(home))
HttpGet(url) == Event("http", <<url.host>> \o url.path, Get(url).ok)

Idle ==
    [pc |-> "idle", op |-> "", args |-> <<>>, chain |-> FALSE, src |-> "",
     tried |-> <<>>, log |-> <<>>, mark |-> 0, res |-> Err("", ""),
     role_arn |-> NONE, web_identity_token_file |-> NONE,
     web_identity_token |-> NONE, session_name |-> NONE,
     i |-> 0, vals |-> <<NONE, NONE, NONE, NONE>>,
     home_dir |-> NONE, credentials_path |-> NONE, role |-> NONE]

\* The reader src is entered, by its caller or by the chain of new: st is the
\* invocation's state; mark is where the reader's events start in the log.
Enter(st, src) ==
    [st EXCEPT !.src = src, !.tried = Append(@, src), !.mark = Len(st.log),
               !.pc = CASE src = "sts_env" -> "sts_role_arn"
                        [] src = "sts" -> "sts_get"
                        [] src = "env" -> "env_lookup"
                        [] src = "profile" -> "profile_home"
                        [] src = "imds" -> "imds_env",
               !.i = 1, !.vals = <<NONE, NONE, NONE, NONE>>]

\* Credentials::new, lines 199-202: the reader tried after src has failed.
OrElseChangedOrder(src) ==
    CASE src = "sts_env" -> "profile"
      [] src = "profile" -> "env"
      [] src = "env" -> "imds"
      [] OTHER -> ""

OrElseStartsOver(src) ==
    CASE src = "sts_env" -> "env"
      [] src = "env" -> "profile"
      [] src = "profile" -> "imds"
      [] src = "imds" -> "sts_env"
      [] OTHER -> ""

OrElseStopsAtProfile(src) ==
    CASE src = "sts_env" -> "env"
      [] src = "env" -> "profile"
      [] OTHER -> ""

OrElse(src) ==
    CASE src = "sts_env" -> "env"
      [] src = "env" -> "profile"
      [] src = "profile" -> "imds"
      [] OTHER -> ""

\* A reader returns r and every Err ends the invocation.
ReturnPropagatesErr(st, r) == [st EXCEPT !.pc = "done", !.res = r]

\* A reader returns r.  Called directly, that is the invocation's result; in
\* the chain of new, an Err of a reader that has a successor is dropped and
\* the successor is entered.
ReturnKeepsArguments(st, r) ==
    IF st.chain /\ ~r.ok /\ OrElse(st.src) # ""
    THEN Enter(st, OrElse(st.src))
    ELSE [st EXCEPT !.pc = "done",
                    !.res = IF st.op = "new" /\ r.ok /\ r.cred.security_token = NONE
                            THEN [r EXCEPT !.cred.security_token = st.args[3]]
                            ELSE r]

Return(st, r) ==
    IF st.chain /\ ~r.ok /\ OrElse(st.src) # ""
    THEN Enter(st, OrElse(st.src))
    ELSE [st EXCEPT !.pc = "done", !.res = r]

ProfileArgs == {NONE, <<"test">>, <<"other">>}

\* The argument lists new is called with: every combination of present and
\* absent for a supplied access key; all absent or all present without one.
\* Strings are tagged with the argument they were passed as.
NewArgs ==
    {<<ak, sk, st, ss, pr>> :
        ak \in {<<"arg", "access_key">>},
        sk \in {NONE, <<"arg", "secret_key">>},
        st \in {NONE, <<"arg", "security_token">>},
        ss \in {NONE, <<"arg", "session_token">>},
        pr \in {NONE}}
    \cup {<<<<"arg", "access_key">>, NONE, NONE, NONE, <<"test">>>>}
    \cup {<<NONE, NONE, NONE, NONE, pr>> : pr \in ProfileArgs}
    \cup {<<NONE, <<"arg", "secret_key">>, <<"arg", "security_token">>,
            <<"arg", "session_token">>, pr>> : pr \in {NONE, <<"test">>}}

\* Credentials::new, with the test of line 189 asking for a secret key too
NewNeedsSecretKey(p, a) ==
    /\ proc[p].pc = "idle"
    /\ LET st == [proc[p] EXCEPT !.op = "new", !.args = a]
       IN  IF IsSome(a[1]) /\ IsSome(a[2])
           THEN proc' = [proc EXCEPT ![p] =
                    [st EXCEPT !.pc = "done",
                               !.res = Ok(Credentials(a[1], a[2], a[3], a[4], NONE))]]
           ELSE proc' = [proc EXCEPT ![p] =
                    Enter([st EXCEPT !.chain = TRUE,
                                     !.session_name = <<"aws-creds">>], "sts_env")]
    /\ UNCHANGED world

\* Credentials::new
New(p, a) ==
    /\ proc[p].pc = "idle"
    /\ LET st == [proc[p] EXCEPT !.op = "new", !.args = a]
       IN  IF IsSome(a[1])
           THEN proc' = [proc EXCEPT ![p] =
                    [st EXCEPT !.pc = "done",
                               !.res = Ok(Credentials(a[1], a[2], a[3], a[4], NONE))]]
           ELSE proc' = [proc EXCEPT ![p] =
                    Enter([st EXCEPT !.chain = TRUE,
                                     !.session_name = <<"aws-creds">>], "sts_env")]
    /\ UNCHANGED world

\* Credentials::default
Default(p) ==
    /\ proc[p].pc = "idle"
    /\ proc' = [proc EXCEPT ![p] =
            Enter([proc[p] EXCEPT !.op = "default", !.chain = TRUE,
                                  !.args = <<NONE, NONE, NONE, NONE, NONE>>,
                                  !.session_name = <<"aws-creds">>], "sts_env")]
    /\ UNCHANGED world

\* Credentials::anonymous
AnonymousFromEnv(p) ==
    /\ proc[p].pc = "idle"
    /\ proc' = [proc EXCEPT ![p] = Enter([proc[p] EXCEPT !.op = "anonymous"], "env")]
    /\ UNCHANGED world

Anonymous(p) ==
    /\ proc[p].pc = "idle"
    /\ proc' = [proc EXCEPT ![p] =
            [proc[p] EXCEPT !.op = "anonymous", !.pc = "done",
                            !.res = Ok(Credentials(NONE, NONE, NONE, NONE, NONE))]]
    /\ UNCHANGED world

\* ------------------------------------------------------------------ STS reader

\* Credentials::from_sts_env
FromStsEnv(p) ==
    /\ proc[p].pc = "idle"
    /\ proc' = [proc EXCEPT ![p] =
            Enter([proc[p] EXCEPT !.op = "from_sts_env",
                                  !.session_name = <<"session">>], "sts_env")]
    /\ UNCHANGED world

\* line 111: env::var("AWS_ROLE_ARN")?
StsRoleArn(p) ==
    /\ proc[p].pc = "sts_role_arn"
    /\ LET v == env["AWS_ROLE_ARN"]
           st == [proc[p] EXCEPT !.log = Append(@, EnvRead("AWS_ROLE_ARN"))]
       IN  proc' = [proc EXCEPT ![p] =
                IF IsSome(v)
                THEN [st EXCEPT !.role_arn = v, !.pc = "sts_token_file_var"]
                ELSE Return(st, Err("VarError", "AWS_ROLE_ARN"))]
    /\ UNCHANGED world

\* line 112: env::var("AWS_WEB_IDENTITY_TOKEN_FILE")?
StsTokenFileVar(p) ==
    /\ proc[p].pc = "sts_token_file_var"
    /\ LET v == env["AWS_WEB_IDENTITY_TOKEN_FILE"]
           st == [proc[p] EXCEPT !.log = Append(@, EnvRead("AWS_WEB_IDENTITY_TOKEN_FILE"))]
       IN  proc' = [proc EXCEPT ![p] =
                IF IsSome(v)
                THEN [st EXCEPT !.web_identity_token_file = v, !.pc = "sts_read_token"]
                ELSE Return(st, Err("VarError", "AWS_WEB_IDENTITY_TOKEN_FILE"))]
    /\ UNCHANGED world

\* line 113: std::fs::read_to_string(web_identity_token_file)?
StsReadTokenGoesOn(p) ==
    /\ proc[p].pc = "sts_read_token"
    /\ LET f == proc[p].web_identity_token_file
           st == [proc[p] EXCEPT !.log = Append(@, FileRead(f))]
       IN  proc' = [proc EXCEPT ![p] =
                [st EXCEPT !.web_identity_token = files[f], !.pc = "sts_get"]]
    /\ UNCHANGED world

StsReadToken(p) ==
    /\ proc[p].pc = "sts_read_token"
    /\ LET f == proc[p].web_identity_token_file
           st == [proc[p] EXCEPT !.log = Append(@, FileRead(f))]
       IN  proc' = [proc EXCEPT ![p] =
                IF files[f] # UNREADABLE
                THEN [st EXCEPT !.web_identity_token = files[f], !.pc = "sts_get"]
                ELSE Return(st, Err("IoError", "web_identity_token_file"))]
    /\ UNCHANGED world

\* Credentials::from_sts, called with explicit arguments
FromSts(p, role_arn, session_name, web_identity_token) ==
    /\ proc[p].pc = "idle"
    /\ proc' = [proc EXCEPT ![p] =
            Enter([proc[p] EXCEPT !.op = "from_sts",
                                  !.args = <<role_arn, session_name, web_identity_token>>,
                                  !.role_arn = role_arn,
                                  !.session_name = session_name,
                                  !.web_identity_token = web_identity_token], "sts")]
    /\ UNCHANGED world

\* serde_xml::from_str::<AssumeRoleWithWebIdentityResponse>: every element of
\* the response is required.
XmlParses(doc) == \A k \in XmlKeys : IsSome(doc[k])

\* lines 137-163: the record built from the parsed response
StsCredentials(doc) ==
    Credentials(doc.AccessKeyId, doc.SecretAccessKey, NONE,
                doc.SessionToken, doc.Expiration)

\* lines 122-163: the GET, the parse and the result of from_sts
StsGet(p) ==
    /\ proc[p].pc = "sts_get"
    /\ LET url == StsUrl(proc[p].role_arn, proc[p].session_name,
                         proc[p].web_identity_token)
           resp == Get(url)
           st == [proc[p] EXCEPT !.log = Append(@, HttpGet(url))]
       IN  proc' = [proc EXCEPT ![p] =
                IF ~resp.ok THEN Return(st, Err("HttpError", "sts"))
                ELSE IF ~XmlParses(resp.doc) THEN Return(st, Err("XmlError", "sts"))
                ELSE Return(st, Ok(StsCredentials(resp.doc)))]
    /\ UNCHANGED world

\* ------------------------------------------------------------------ environment reader

\* lines 211-215: the four lookups of from_env_specific, in order: the
\* argument that overrides the name, the default name, and whether a failure
\* is propagated (?) or turned into None (.ok()).
EnvFieldsSecretOptional ==
    << [default |-> "AWS_ACCESS_KEY_ID", required |-> TRUE],
       [default |-> "AWS_SECRET_ACCESS_KEY", required |-> FALSE],
       [default |-> "AWS_SECURITY_TOKEN", required |-> FALSE],
       [default |-> "AWS_SESSION_TOKEN", required |-> FALSE] >>

EnvFields ==
    << [default |-> "AWS_ACCESS_KEY_ID", required |-> TRUE],
       [default |-> "AWS_SECRET_ACCESS_KEY", required |-> TRUE],
       [default |-> "AWS_SECURITY_TOKEN", required |-> FALSE],
       [default |-> "AWS_SESSION_TOKEN", required |-> FALSE] >>

\* The override lists from_env_specific is called with.
VarArgs ==
    {<<NONE, NONE, NONE, NONE>>, <<<<"MY_VAR">>, NONE, NONE, NONE>>,
     <<NONE, <<"MY_VAR">>, NONE, NONE>>, <<NONE, NONE, <<"MY_VAR">>, NONE>>,
     <<NONE, NONE, NONE, <<"MY_VAR">>>>,
     <<<<"MY_VAR">>, <<"MY_VAR">>, <<"MY_VAR">>, <<"MY_VAR">>>>}

\* Credentials::from_env_specific
FromEnvSpecific(p, a) ==
    /\ proc[p].pc = "idle"
    /\ proc' = [proc EXCEPT ![p] =
            Enter([proc[p] EXCEPT !.op = "from_env_specific", !.args = a], "env")]
    /\ UNCHANGED world

\* Credentials::from_env
FromEnv(p) ==
    /\ proc[p].pc = "idle"
    /\ proc' = [proc EXCEPT ![p] =
            Enter([proc[p] EXCEPT !.op = "from_env",
                                  !.args = <<NONE, NONE, NONE, NONE>>], "env")]
    /\ UNCHANGED world

\* line 310: var.unwrap_or(default).  In the chain of new, from_env passes
\* None for every name.
VarNameOrDefault(st) ==
    LET var == IF st.op \in {"from_env_specific"} THEN st.args[st.i] ELSE NONE
    IN  IF IsSome(var) /\ IsSome(env[var[1]]) THEN var[1] ELSE EnvFields[st.i].default

VarName(st) ==
    LET var == IF st.op \in {"from_env_specific"} THEN st.args[st.i] ELSE NONE
    IN  IF IsSome(var) THEN var[1] ELSE EnvFields[st.i].default

\* lines 216-222: the record built from the four lookups
EnvCredentials(vals) == Credentials(vals[1], vals[2], vals[3], vals[4], NONE)

\* The lookup of field st.i has yielded v (None for a failed optional one):
\* the next lookup, or the record after the fourth.
EnvNext(st, v) ==
    LET st1 == [st EXCEPT !.vals[st.i] = v]
    IN  IF st.i < Len(EnvFields)
        THEN [st1 EXCEPT !.i = @ + 1, !.pc = "env_lookup"]
        ELSE Return(st1, Ok(EnvCredentials(st1.vals)))

\* line 311: env::var(val)
EnvLookup(p) ==
    /\ proc[p].pc = "env_lookup"
    /\ LET n == VarName(proc[p])
           st == [proc[p] EXCEPT !.log = Append(@, EnvRead(n))]
       IN  proc' = [proc EXCEPT ![p] =
                IF IsSome(env[n]) THEN EnvNext(st, env[n])
                ELSE [st EXCEPT !.pc = "env_retry"]]
    /\ UNCHANGED world

\* The failure of field i: propagated for a required field, None otherwise.
EnvFailedAllPropagated(st) ==
    Return(st, Err("Neither var nor default exists", EnvFields[st.i].default))

EnvFailed(st) ==
    IF EnvFields[st.i].required
    THEN Return(st, Err("Neither var nor default exists", EnvFields[st.i].default))
    ELSE EnvNext(st, NONE)

\* line 311: .or_else(|_e| env::var(val)), then map_err
EnvRetrySetsVar(p) ==
    /\ proc[p].pc = "env_retry"
    /\ LET n == VarName(proc[p])
           st == [proc[p] EXCEPT !.log = Append(@, EnvRead(n))]
       IN  /\ proc' = [proc EXCEPT ![p] = EnvNext(st, EnvValue(n))]
           /\ env' = [env EXCEPT ![n] = EnvValue(n)]
    /\ UNCHANGED <<files, home, ini, net>>

EnvRetry(p) ==
    /\ proc[p].pc = "env_retry"
    /\ LET n == VarName(proc[p])
           st == [proc[p] EXCEPT !.log = Append(@, EnvRead(n))]
       IN  proc' = [proc EXCEPT ![p] =
                IF IsSome(env[n]) THEN EnvNext(st, env[n]) ELSE EnvFailed(st)]
    /\ UNCHANGED world

\* ------------------------------------------------------------------ profile reader

\* Credentials::from_profile
FromProfile(p, section) ==
    /\ proc[p].pc = "idle"
    /\ proc' = [proc EXCEPT ![p] =
            Enter([proc[p] EXCEPT !.op = "from_profile", !.args = <<section>>], "profile")]
    /\ UNCHANGED world

\* line 283: dirs::home_dir().ok_or_else(|| anyhow!("Invalid home dir"))?
ProfileHome(p) ==
    /\ proc[p].pc = "profile_home"
    /\ LET st == [proc[p] EXCEPT !.log = Append(@, HomeLookup)]
       IN  proc' = [proc EXCEPT ![p] =
                IF IsSome(home)
                THEN [st EXCEPT !.home_dir = home, !.pc = "profile_load"]
                ELSE Return(st, Err("Invalid home dir", ""))]
    /\ UNCHANGED world

\* The section argument of the invocation: new passes its profile argument.
SectionArg(st) ==
    IF st.op = "from_profile" THEN st.args[1] ELSE st.args[5]

\* line 286: section.unwrap_or("default")
SectionName(section) == IF IsSome(section) THEN section[1] ELSE "default"

\* conf.section(Some(section))
HasSection(conf, name) == name \in DOMAIN conf /\ conf[name].present

\* data.get(key).map(|s| s.to_string())
IniGet(conf, name, key) ==
    IF key \in conf[name].keys THEN IniValue(name, key) ELSE NONE

\* lines 286-305: the lookups in the loaded file and the result
ProfileLookupSecretFirst(conf, section) ==
    LET name == SectionName(section)
    IN  IF ~HasSection(conf, name) THEN Err("Config missing", name)
        ELSE IF ~IsSome(IniGet(conf, name, "aws_secret_access_key"))
             THEN Err("Missing field", "aws_secret_access_key")
        ELSE IF ~IsSome(IniGet(conf, name, "aws_access_key_id"))
             THEN Err("Missing field", "aws_access_key_id")
        ELSE Ok(Credentials(IniGet(conf, name, "aws_access_key_id"),
                            IniGet(conf, name, "aws_secret_access_key"),
                            IniGet(conf, name, "aws_security_token"),
                            IniGet(conf, name, "aws_session_token"), NONE))

ProfileLookup(conf, section) ==
    LET name == SectionName(section)
    IN  IF ~HasSection(conf, name) THEN Err("Config missing", name)
        ELSE IF ~IsSome(IniGet(conf, name, "aws_access_key_id"))
             THEN Err("Missing field", "aws_access_key_id")
        ELSE IF ~IsSome(IniGet(conf, name, "aws_secret_access_key"))
             THEN Err("Missing field", "aws_secret_access_key")
        ELSE Ok(Credentials(IniGet(conf, name, "aws_access_key_id"),
                            IniGet(conf, name, "aws_secret_access_key"),
                            IniGet(conf, name, "aws_security_token"),
                            IniGet(conf, name, "aws_session_token"), NONE))

\* format!("{}/.aws/credentials", home_dir.display())
ProfilePath(home_dir) == home_dir \o <<"/.aws/credentials">>

\* lines 284-305: Ini::load_from_file(&profile)?, then the lookups
ProfileLoad(p) ==
    /\ proc[p].pc = "profile_load"
    /\ LET st == [proc[p] EXCEPT !.log =
                    Append(@, Event("file", ProfilePath(proc[p].home_dir),
                                    ini.status = "ok"))]
       IN  proc' = [proc EXCEPT ![p] =
                IF ini.status # "ok" THEN Return(st, Err("IniError", ini.status))
                ELSE Return(st, ProfileLookup(ini.conf, SectionArg(st)))]
    /\ UNCHANGED world

\* ------------------------------------------------------------------ instance-metadata reader

\* Credentials::from_instance_metadata
FromInstanceMetadata(p) ==
    /\ proc[p].pc = "idle"
    /\ proc' = [proc EXCEPT ![p] =
            Enter([proc[p] EXCEPT !.op = "from_instance_metadata"], "imds")]
    /\ UNCHANGED world

\* line 239: match env::var("AWS_CONTAINER_CREDENTIALS_RELATIVE_URI")
ImdsEnv(p) ==
    /\ proc[p].pc = "imds_env"
    /\ LET v == env["AWS_CONTAINER_CREDENTIALS_RELATIVE_URI"]
           st == [proc[p] EXCEPT !.log =
                    Append(@, EnvRead("AWS_CONTAINER_CREDENTIALS_RELATIVE_URI"))]
       IN  proc' = [proc EXCEPT ![p] =
                IF IsSome(v)
                THEN [st EXCEPT !.credentials_path = v, !.pc = "imds_ecs_get"]
                ELSE [st EXCEPT !.pc = "imds_uuid"]]
    /\ UNCHANGED world

\* The deserializer of the local struct Response: four required fields.
JsonParsesOptionalExpiration(doc) == \A k \in JsonKeys \ {"Expiration"} : IsSome(doc[k])

JsonParses(doc) == \A k \in JsonKeys : IsSome(doc[k])

\* lines 273-279: the record built from the parsed response
ImdsCredentialsAsSession(doc) ==
    Credentials(doc.AccessKeyId, doc.SecretAccessKey, NONE, doc.Token, doc.Expiration)

ImdsCredentials(doc) ==
    Credentials(doc.AccessKeyId, doc.SecretAccessKey, doc.Token, NONE, doc.Expiration)

\* .send()?.json()? and the result of from_instance_metadata
ImdsResultUnparsed(resp, what) ==
    IF ~resp.ok THEN Err("HttpError", what)
    ELSE Ok(ImdsCredentials(resp.doc))

ImdsResult(resp, what) ==
    IF ~resp.ok THEN Err("HttpError", what)
    ELSE IF ~JsonParses(resp.doc) THEN Err("JsonError", what)
    ELSE Ok(ImdsCredentials(resp.doc))

\* lines 242-244: the GET on ECS
ImdsEcsGetFallsBack(p) ==
    /\ proc[p].pc = "imds_ecs_get"
    /\ LET url == EcsUrl(proc[p].credentials_path)
           st == [proc[p] EXCEPT !.log = Append(@, HttpGet(url))]
       IN  proc' = [proc EXCEPT ![p] =
                IF ImdsResult(Get(url), "ecs").ok
                THEN Return(st, ImdsResult(Get(url), "ecs"))
                ELSE [st EXCEPT !.pc = "imds_uuid"]]
    /\ UNCHANGED world

ImdsEcsGet(p) ==
    /\ proc[p].pc = "imds_ecs_get"
    /\ LET url == EcsUrl(proc[p].credentials_path)
           st == [proc[p] EXCEPT !.log = Append(@, HttpGet(url))]
       IN  proc' = [proc EXCEPT ![p] = Return(st, ImdsResult(Get(url), "ecs"))]
    /\ UNCHANGED world

\* map_or(false, |uuid| uuid.len() >= n && &uuid[..n] == prefix)
StartsWith(content, prefix) ==
    /\ content # UNREADABLE
    /\ Len(content) >= Len(prefix)
    /\ SubSeq(content, 1, Len(prefix)) = prefix

\* lines 247-248: the first probe
ImdsProbeUuid(p) ==
    /\ proc[p].pc = "imds_uuid"
    /\ LET st == [proc[p] EXCEPT !.log = Append(@, FileRead(UuidFile))]
       IN  proc' = [proc EXCEPT ![p] =
                IF StartsWith(files[UuidFile], <<"e", "c", "2">>)
                THEN [st EXCEPT !.pc = "imds_role_get"]
                ELSE [st EXCEPT !.pc = "imds_vendor"]]
    /\ UNCHANGED world

\* The outcome of the second probe.
ImdsNotOnPlatformGoesOn(st) == [st EXCEPT !.pc = "imds_role_get"]

ImdsNotOnPlatform(st) == Return(st, Err("Not an AWS instance", ""))

\* lines 249-255: the second probe, evaluated when the first did not match
ImdsProbeVendor(p) ==
    /\ proc[p].pc = "imds_vendor"
    /\ LET st == [proc[p] EXCEPT !.log = Append(@, FileRead(VendorFile))]
       IN  proc' = [proc EXCEPT ![p] =
                IF StartsWith(files[VendorFile], AmazonVendor)
                THEN [st EXCEPT !.pc = "imds_role_get"]
                ELSE ImdsNotOnPlatform(st)]
    /\ UNCHANGED world

\* lines 258-262: the GET of the role name
ImdsRoleGetGoesOn(p) ==
    /\ proc[p].pc = "imds_role_get"
    /\ LET resp == Get(RoleUrl)
           st == [proc[p] EXCEPT !.log = Append(@, HttpGet(RoleUrl))]
       IN  proc' = [proc EXCEPT ![p] =
                [st EXCEPT !.role = IF resp.ok THEN resp.text ELSE RoleA,
                           !.pc = "imds_creds_get"]]
    /\ UNCHANGED world

ImdsRoleGet(p) ==
    /\ proc[p].pc = "imds_role_get"
    /\ LET resp == Get(RoleUrl)
           st == [proc[p] EXCEPT !.log = Append(@, HttpGet(RoleUrl))]
       IN  proc' = [proc EXCEPT ![p] =
                IF ~resp.ok THEN Return(st, Err("HttpError", "role"))
                ELSE [st EXCEPT !.role = resp.text, !.pc = "imds_creds_get"]]
    /\ UNCHANGED world

\* lines 264-269: the GET of the role's credentials
ImdsCredsGet(p) ==
    /\ proc[p].pc = "imds_creds_get"
    /\ LET url == RoleCredsUrl(proc[p].role)
           st == [proc[p] EXCEPT !.log = Append(@, HttpGet(url))]
       IN  proc' = [proc EXCEPT ![p] = Return(st, ImdsResult(Get(url), "creds"))]
    /\ UNCHANGED world

\* ------------------------------------------------------------------ specification

Init ==
    /\ \E w \in Worlds :
        /\ env = EnvOf(w)
        /\ files = FilesOf(w)
        /\ home = w[3].home
        /\ ini = w[3].ini
        /\ net = NetOf(w)
    /\ proc = [p \in Procs |-> Idle]

Next ==
    \/ \E p \in DOMAIN proc, a \in NewArgs : New(p, a)
    \/ \E p \in DOMAIN proc : Default(p)
    \/ \E p \in DOMAIN proc : Anonymous(p)
    \/ \E p \in DOMAIN proc : FromStsEnv(p)
    \/ \E p \in DOMAIN proc : StsRoleArn(p)
    \/ \E p \in DOMAIN proc : StsTokenFileVar(p)
    \/ \E p \in DOMAIN proc : StsReadToken(p)
    \/ \E p \in DOMAIN proc : FromSts(p, <<"arn:role">>, <<"session">>, TokenText)
    \/ \E p \in DOMAIN proc : StsGet(p)
    \/ \E p \in DOMAIN proc, a \in VarArgs : FromEnvSpecific(p, a)
    \/ \E p \in DOMAIN proc : FromEnv(p)
    \/ \E p \in DOMAIN proc : EnvLookup(p)
    \/ \E p \in DOMAIN proc : EnvRetry(p)
    \/ \E p \in DOMAIN proc, s \in ProfileArgs : FromProfile(p, s)
    \/ \E p \in DOMAIN proc : ProfileHome(p)
    \/ \E p \in DOMAIN proc : ProfileLoad(p)
    \/ \E p \in DOMAIN proc : FromInstanceMetadata(p)
    \/ \E p \in DOMAIN proc : ImdsEnv(p)
    \/ \E p \in DOMAIN proc : ImdsEcsGet(p)
    \/ \E p \in DOMAIN proc : ImdsProbeUuid(p)
    \/ \E p \in DOMAIN proc : ImdsProbeVendor(p)
    \/ \E p \in DOMAIN proc : ImdsRoleGet(p)
    \/ \E p \in DOMAIN proc : ImdsCredsGet(p)

Spec == Init /\ [][Next]_vars

\* Every external operation returns: an invocation that can take a step takes
\* one.
SpecFair == Init /\ [][Next]_vars /\ WF_vars(Next)

\* Two invocations that run concurrently, a step of one between the steps of
\* the other, over external states under which every step can be taken.
ConcProcs == {"p1", "p2"}

ImdsEcs == [uri |-> UriPath, ecs |-> JsonBody("ecs", JsonKeys),
            uuid |-> UNREADABLE, vendor |-> UNREADABLE, ec2 |-> Ec2NetDown]

ConcWorlds ==
    { <<StsDown, KeysDown, ProfileDown, ImdsDown>>,
      <<StsUp, KeysUp, ProfileUp, ImdsUp>>,
      <<StsDown, KeysUp, ProfileUp, ImdsDown>>,
      <<StsDown, KeysDown, ProfileUp, ImdsUp>>,
      <<StsDown, KeysDown, ProfileDown, ImdsUp>>,
      <<StsDown, KeysDown, ProfileDown, ImdsEcs>> }

InitConc ==
    /\ \E w \in ConcWorlds :
        /\ env = EnvOf(w)
        /\ files = FilesOf(w)
        /\ home = w[3].home
        /\ ini = w[3].ini
        /\ net = NetOf(w)
    /\ proc = [p \in ConcProcs |-> Idle]

SpecConc == InitConc /\ [][Next]_vars

\* ------------------------------------------------------------------ properties

\* What each reader does with the external state, read off that state alone;
\* the properties compare the invocations' steps with it.

Done(p) == proc[p].pc = "done"

\* new without an access key, or default: the chain runs.
IsChain(p) == proc[p].op \in {"new", "default"} /\ ~IsSome(proc[p].args[1])

IsDirect(p) == proc[p].op = "new" /\ IsSome(proc[p].args[1])

Order == <<"sts_env", "env", "profile", "imds">>

StsEnvSucceeds ==
    /\ IsSome(env["AWS_ROLE_ARN"])
    /\ IsSome(env["AWS_WEB_IDENTITY_TOKEN_FILE"])
    /\ files[env["AWS_WEB_IDENTITY_TOKEN_FILE"]] # UNREADABLE
    /\ net.sts.ok
    /\ \A k \in XmlKeys : IsSome(net.sts.doc[k])

EnvSucceeds ==
    IsSome(env["AWS_ACCESS_KEY_ID"]) /\ IsSome(env["AWS_SECRET_ACCESS_KEY"])

RequestedSection(section) == IF section = NONE THEN "default" ELSE section[1]

ProfileSucceeds(section) ==
    /\ IsSome(home)
    /\ ini.status = "ok"
    /\ RequestedSection(section) \in SectionNames
    /\ ini.conf[RequestedSection(section)].present
    /\ {"aws_access_key_id", "aws_secret_access_key"}
            \subseteq ini.conf[RequestedSection(section)].keys

OnEc2 ==
    \/ /\ files[UuidFile] # UNREADABLE
       /\ Len(files[UuidFile]) >= 3
       /\ files[UuidFile][1] = "e" /\ files[UuidFile][2] = "c" /\ files[UuidFile][3] = "2"
    \/ files[VendorFile] \in {AmazonVendor}

Complete(resp) == resp.ok /\ \A k \in JsonKeys : IsSome(resp.doc[k])

ImdsSucceeds ==
    IF IsSome(env["AWS_CONTAINER_CREDENTIALS_RELATIVE_URI"])
    THEN Complete(net.ecs)
    ELSE /\ OnEc2
         /\ net.role.ok
         /\ net.role.text \in RoleNames
         /\ Complete(net.creds[net.role.text])

Succeeds(src, section) ==
    CASE src = "sts_env" -> StsEnvSucceeds
      [] src = "env" -> EnvSucceeds
      [] src = "profile" -> ProfileSucceeds(section)
      [] src = "imds" -> ImdsSucceeds

\* The source a record's access key was read from.
Origin(cred) ==
    IF cred.access_key = NONE THEN "none"
    ELSE CASE cred.access_key[1] = "arg" -> "direct"
           [] cred.access_key[1] = "sts" -> "sts_env"
           [] cred.access_key[1] = "env" -> "env"
           [] cred.access_key[1] = "ini" -> "profile"
           [] OTHER -> "imds"

\* The sources the chain has to try: up to and including the first that
\* succeeds, all four when none does.
Winners(section) == {i \in 1..4 : Succeeds(Order[i], section)}

MustTry(section) ==
    IF Winners(section) = {} THEN 4
    ELSE CHOOSE i \in Winners(section) : \A j \in Winners(section) : i <= j

\* C1: new without an access key tries the sources in the order STS-env,
\* Environment, Profile-File, Instance-Metadata, never goes past the first one
\* that succeeds, and returns the record of that one; with STS-env failing and
\* Environment and Profile-File both good, the Environment record.
C1_ChainOrder ==
    \A p \in DOMAIN proc :
        IsChain(p) =>
            LET st == proc[p]
                n == MustTry(st.args[5])
            IN  /\ Len(st.tried) <= n
                /\ st.tried = SubSeq(Order, 1, Len(st.tried))
                /\ Done(p) =>
                    /\ Len(st.tried) = n
                    /\ st.res.ok = Succeeds(Order[n], st.args[5])
                    /\ st.res.ok => Origin(st.res.cred) = Order[n] /\ st.src = Order[n]
                    /\ (~StsEnvSucceeds /\ EnvSucceeds /\ ProfileSucceeds(st.args[5]))
                         => st.res.cred.access_key = EnvValue("AWS_ACCESS_KEY_ID")

C1_Witness ==
    \E p \in DOMAIN proc :
        /\ IsChain(p) /\ Done(p)
        /\ ~StsEnvSucceeds /\ EnvSucceeds /\ ProfileSucceeds(proc[p].args[5])
        /\ ImdsSucceeds
        /\ proc[p].res.ok
        /\ proc[p].tried = <<"sts_env", "env">>
        /\ proc[p].res.cred.access_key = EnvValue("AWS_ACCESS_KEY_ID")

\* C2: new with an access key returns at once the record made of its four
\* arguments, with no expiration, having read no environment variable, no
\* file and no endpoint and entered no reader, whatever the external state.
C2_DirectInput ==
    \A p \in DOMAIN proc :
        IsDirect(p) =>
            /\ Done(p)
            /\ proc[p].res = Ok(Credentials(proc[p].args[1], proc[p].args[2],
                                            proc[p].args[3], proc[p].args[4], NONE))
            /\ proc[p].log = <<>>
            /\ proc[p].tried = <<>>

C2_Witness ==
    \E p \in DOMAIN proc :
        /\ IsDirect(p) /\ Done(p)
        /\ proc[p].args[2] = NONE
        /\ StsEnvSucceeds /\ EnvSucceeds /\ ProfileSucceeds(proc[p].args[5])
        /\ proc[p].res.ok
        /\ proc[p].res.cred.access_key = <<"arg", "access_key">>
        /\ proc[p].log = <<>>

\* The error from_instance_metadata ends with when it fails.
ImdsFailure ==
    IF IsSome(env["AWS_CONTAINER_CREDENTIALS_RELATIVE_URI"])
    THEN IF net.ecs.ok THEN "JsonError" ELSE "HttpError"
    ELSE IF ~OnEc2 THEN "Not an AWS instance"
    ELSE IF ~net.role.ok THEN "HttpError"
    ELSE IF net.role.text \in RoleNames /\ ~net.creds[net.role.text].ok THEN "HttpError"
    ELSE "JsonError"

AllFail(section) == \A i \in 1..4 : ~Succeeds(Order[i], section)

\* C3 as stated: when all four sources fail, new fails with an aggregate
\* AllSourcesExhausted error.
C3_Original ==
    \A p \in DOMAIN proc :
        (IsChain(p) /\ Done(p) /\ AllFail(proc[p].args[5]))
            => ~proc[p].res.ok /\ proc[p].res.err = "AllSourcesExhausted"

\* C3, amended: when all four sources fail, new fails with the error of the
\* last source, the instance-metadata reader; the errors of the first three
\* are dropped and no aggregate error is built.
C3_LastError ==
    \A p \in DOMAIN proc :
        (IsChain(p) /\ Done(p) /\ AllFail(proc[p].args[5]))
            => /\ ~proc[p].res.ok
               /\ proc[p].src = "imds"
               /\ proc[p].res.err = ImdsFailure
               /\ proc[p].res.err \in {"Not an AWS instance", "HttpError", "JsonError"}

C3_Witness ==
    \E p \in DOMAIN proc :
        /\ IsChain(p) /\ Done(p) /\ AllFail(proc[p].args[5])
        /\ IsSome(home) /\ ini.status = "ok"
        /\ proc[p].res = Err("Not an AWS instance", "")
        /\ proc[p].tried = Order

\* C4: in new without an access key, no failure of STS-env, Environment or
\* Profile-File ends the invocation: after a failed source the next one is
\* entered, and an error is returned only when all four have failed.  With
\* both STS variables set and the token file unreadable, the failed file read
\* is followed by the environment reader.
C4_FallThrough ==
    \A p \in DOMAIN proc :
        IsChain(p) =>
            LET st == proc[p]
            IN  /\ \A i \in 1..3 :
                    (Done(p) /\ \A j \in 1..i : ~Succeeds(Order[j], st.args[5]))
                        => Len(st.tried) > i /\ st.tried[i + 1] = Order[i + 1]
                /\ (Done(p) /\ ~st.res.ok)
                        => st.tried = Order /\ AllFail(st.args[5])
                /\ \A k \in 1..Len(st.log) :
                    (st.log[k] = Event("file", MissingFile, FALSE))
                        => Len(st.tried) >= 2 /\ st.tried[2] = "env"

C4_Witness ==
    \E p \in DOMAIN proc :
        /\ IsChain(p)
        /\ IsSome(env["AWS_ROLE_ARN"])
        /\ proc[p].log = <<Event("env", <<"AWS_ROLE_ARN">>, TRUE),
                           Event("env", <<"AWS_WEB_IDENTITY_TOKEN_FILE">>, TRUE),
                           Event("file", MissingFile, FALSE)>>
        /\ proc[p].tried = <<"sts_env", "env">>
        /\ proc[p].pc = "env_lookup"

\* C5 as stated: every record returned has all fields None when access_key
\* is None, and access_key and secret_key both present otherwise.
C5_Original ==
    \A p \in DOMAIN proc :
        (Done(p) /\ proc[p].res.ok) =>
            LET c == proc[p].res.cred
            IN  IF c.access_key = NONE THEN c = NoCredentials
                ELSE IsSome(c.secret_key)

\* C5, amended: a record with access_key None has every field None (and comes
\* from anonymous); a record of a reader or of the chain has access_key and
\* secret_key both present; a record of new with an access key has secret_key
\* as supplied, None when none was.
C5_RecordShape ==
    \A p \in DOMAIN proc :
        (Done(p) /\ proc[p].res.ok) =>
            LET c == proc[p].res.cred
            IN  /\ c.access_key = NONE => c = NoCredentials /\ proc[p].op = "anonymous"
                /\ (IsSome(c.access_key) /\ ~IsDirect(p)) => IsSome(c.secret_key)
                /\ IsDirect(p) => IsSome(c.access_key) /\ c.secret_key = proc[p].args[2]

C5_Witness ==
    \E p \in DOMAIN proc :
        /\ IsDirect(p) /\ Done(p) /\ proc[p].res.ok
        /\ IsSome(proc[p].res.cred.access_key)
        /\ proc[p].res.cred.secret_key = NONE
        /\ IsSome(proc[p].res.cred.session_token)

FromSource(p, srcs) == Done(p) /\ proc[p].res.ok /\ proc[p].src \in srcs

\* C6 as stated: instance metadata populates only security_token, STS and the
\* profile file only session_token, and no record of these sources has both.
C6_Original ==
    \A p \in DOMAIN proc :
        LET c == proc[p].res.cred
        IN  /\ FromSource(p, {"imds"}) => c.session_token = NONE
            /\ FromSource(p, {"sts", "sts_env", "profile"}) => c.security_token = NONE
            /\ FromSource(p, {"imds", "sts", "sts_env", "profile"})
                    => ~(IsSome(c.security_token) /\ IsSome(c.session_token))

\* C6, amended: instance metadata populates security_token and never
\* session_token, STS populates session_token and never security_token; the
\* profile reader populates security_token exactly when the section has
\* aws_security_token and session_token exactly when it has aws_session_token.
C6_TokenFields ==
    \A p \in DOMAIN proc :
        LET c == proc[p].res.cred
            keys == ini.conf[RequestedSection(IF proc[p].op = "from_profile"
                                              THEN proc[p].args[1]
                                              ELSE proc[p].args[5])].keys
        IN  /\ FromSource(p, {"imds"})
                    => IsSome(c.security_token) /\ c.session_token = NONE
            /\ FromSource(p, {"sts", "sts_env"})
                    => c.security_token = NONE /\ IsSome(c.session_token)
            /\ FromSource(p, {"profile"})
                    => /\ IsSome(c.security_token) <=> "aws_security_token" \in keys
                       /\ IsSome(c.session_token) <=> "aws_session_token" \in keys

C6_Witness ==
    \E p \in DOMAIN proc :
        /\ FromSource(p, {"profile"})
        /\ proc[p].op = "from_profile"
        /\ IsSome(proc[p].res.cred.security_token)
        /\ IsSome(proc[p].res.cred.session_token)

\* C7: a returned record has an expiration exactly when the STS reader or the
\* instance-metadata reader produced it, and then it also has a secret key and
\* the token of that reader (session_token for STS, security_token for
\* instance metadata).
C7_Expiration ==
    \A p \in DOMAIN proc :
        (Done(p) /\ proc[p].res.ok) =>
            LET c == proc[p].res.cred
            IN  /\ IsSome(c.expiration) <=> proc[p].src \in {"sts", "sts_env", "imds"}
                /\ IsSome(c.expiration) => IsSome(c.secret_key)
                /\ proc[p].src \in {"sts", "sts_env"} => IsSome(c.session_token)
                /\ proc[p].src = "imds" => IsSome(c.security_token)

C7_Witness ==
    \E p \in DOMAIN proc :
        /\ FromSource(p, {"imds"})
        /\ IsSome(env["AWS_CONTAINER_CREDENTIALS_RELATIVE_URI"])
        /\ IsSome(proc[p].res.cred.expiration)
        /\ IsSome(proc[p].res.cred.security_token)

\* The name from_env_specific looks up for its i-th field: the override when
\* one is passed, the canonical name otherwise.
Canonical == <<"AWS_ACCESS_KEY_ID", "AWS_SECRET_ACCESS_KEY",
               "AWS_SECURITY_TOKEN", "AWS_SESSION_TOKEN">>

LookedUp(p, i) ==
    IF IsSome(proc[p].args[i]) THEN proc[p].args[i][1] ELSE Canonical[i]

\* C8: the environment reader fails, with its missing-variable error, exactly
\* when the access-key variable or the secret-key variable it looks up is
\* absent; each token variable that is absent gives None for that token and
\* nothing else; on success the record holds the values of the variables
\* looked up and no expiration.
C8_EnvReader ==
    \A p \in DOMAIN proc :
        (Done(p) /\ proc[p].op \in {"from_env", "from_env_specific"}) =>
            LET r == proc[p].res
                v(i) == env[LookedUp(p, i)]
            IN  /\ ~r.ok <=> (v(1) = NONE \/ v(2) = NONE)
                /\ ~r.ok => /\ r.err = "Neither var nor default exists"
                            /\ r.what = IF v(1) = NONE THEN Canonical[1] ELSE Canonical[2]
                /\ r.ok => r.cred = Credentials(v(1), v(2), v(3), v(4), NONE)

C8_Witness ==
    \E p \in DOMAIN proc :
        /\ Done(p) /\ proc[p].op = "from_env_specific"
        /\ proc[p].args[3] = <<"MY_VAR">>
        /\ env["MY_VAR"] = NONE /\ IsSome(env["AWS_SECURITY_TOKEN"])
        /\ proc[p].res.ok
        /\ proc[p].res.cred.security_token = NONE
        /\ proc[p].res.cred.session_token = EnvValue("AWS_SESSION_TOKEN")

\* The events of the reader the invocation is in.
ReaderLog(p) == SubSeq(proc[p].log, proc[p].mark + 1, Len(proc[p].log))

NoHttp(log) == \A k \in 1..Len(log) : log[k].kind # "http"

ProfileExpected(section) ==
    LET name == RequestedSection(section)
        keys == ini.conf[name].keys
        get(k) == IF k \in keys THEN IniValue(name, k) ELSE NONE
    IN  IF home = NONE THEN Err("Invalid home dir", "")
        ELSE IF ini.status # "ok" THEN Err("IniError", ini.status)
        ELSE IF name \notin SectionNames \/ ~ini.conf[name].present
             THEN Err("Config missing", name)
        ELSE IF "aws_access_key_id" \notin keys
             THEN Err("Missing field", "aws_access_key_id")
        ELSE IF "aws_secret_access_key" \notin keys
             THEN Err("Missing field", "aws_secret_access_key")
        ELSE Ok(Credentials(get("aws_access_key_id"), get("aws_secret_access_key"),
                            get("aws_security_token"), get("aws_session_token"), NONE))

\* C10: from_profile reports the first failure that applies in the order home
\* directory unavailable, file missing or unparseable, section missing (its
\* own error, not the file error), aws_access_key_id missing,
\* aws_secret_access_key missing; it succeeds exactly when none applies, reads
\* section "default" when given none, and a missing token key is no failure.
C10_ProfileErrors ==
    \A p \in DOMAIN proc :
        (Done(p) /\ proc[p].op = "from_profile") =>
            /\ proc[p].res = ProfileExpected(proc[p].args[1])
            /\ proc[p].res.ok <=>
                /\ IsSome(home) /\ ini.status = "ok"
                /\ RequestedSection(proc[p].args[1]) \in SectionNames
                /\ ini.conf[RequestedSection(proc[p].args[1])].present
                /\ {"aws_access_key_id", "aws_secret_access_key"}
                        \subseteq ini.conf[RequestedSection(proc[p].args[1])].keys

C10_Witness ==
    \E p \in DOMAIN proc :
        /\ Done(p) /\ proc[p].op = "from_profile" /\ proc[p].args[1] = NONE
        /\ ini.status = "ok" /\ ini.conf["default"].present
        /\ ini.conf["default"].keys = {"aws_session_token"}
        /\ ini.conf["test"] = Section(KeyNames)
        /\ proc[p].res = Err("Missing field", "aws_access_key_id")

\* ------------------------------------------------------------------ results of an invocation run alone

\* What each constructor returns when nothing else runs, as a function of its
\* arguments and of the external state.

StsAlone ==
    IF ~net.sts.ok THEN Err("HttpError", "sts")
    ELSE IF \E k \in XmlKeys : net.sts.doc[k] = NONE THEN Err("XmlError", "sts")
    ELSE Ok(Credentials(net.sts.doc["AccessKeyId"], net.sts.doc["SecretAccessKey"],
                        NONE, net.sts.doc["SessionToken"], net.sts.doc["Expiration"]))

StsEnvAlone ==
    IF env["AWS_ROLE_ARN"] = NONE THEN Err("VarError", "AWS_ROLE_ARN")
    ELSE IF env["AWS_WEB_IDENTITY_TOKEN_FILE"] = NONE
         THEN Err("VarError", "AWS_WEB_IDENTITY_TOKEN_FILE")
    ELSE IF files[env["AWS_WEB_IDENTITY_TOKEN_FILE"]] = UNREADABLE
         THEN Err("IoError", "web_identity_token_file")
    ELSE StsAlone

\* names: the four variable names looked up.
EnvAlone(names) ==
    IF env[names[1]] = NONE THEN Err("Neither var nor default exists", Canonical[1])
    ELSE IF env[names[2]] = NONE THEN Err("Neither var nor default exists", Canonical[2])
    ELSE Ok(Credentials(env[names[1]], env[names[2]], env[names[3]], env[names[4]], NONE))

ImdsResponse ==
    IF IsSome(env["AWS_CONTAINER_CREDENTIALS_RELATIVE_URI"]) THEN net.ecs
    ELSE IF net.role.text \in RoleNames THEN net.creds[net.role.text]
    ELSE Garbage

ImdsAlone ==
    IF ImdsSucceeds
    THEN Ok(Credentials(ImdsResponse.doc["AccessKeyId"], ImdsResponse.doc["SecretAccessKey"],
                        ImdsResponse.doc["Token"], NONE, ImdsResponse.doc["Expiration"]))
    ELSE Err(ImdsFailure,
             IF IsSome(env["AWS_CONTAINER_CREDENTIALS_RELATIVE_URI"]) THEN "ecs"
             ELSE IF ~OnEc2 THEN ""
             ELSE IF ~net.role.ok THEN "role"
             ELSE "creds")

ChainAlone(section) ==
    IF StsEnvAlone.ok THEN StsEnvAlone
    ELSE IF EnvAlone(Canonical).ok THEN EnvAlone(Canonical)
    ELSE IF ProfileExpected(section).ok THEN ProfileExpected(section)
    ELSE ImdsAlone

Alone(op, args) ==
    CASE op = "new" ->
            IF IsSome(args[1])
            THEN Ok(Credentials(args[1], args[2], args[3], args[4], NONE))
            ELSE ChainAlone(args[5])
      [] op = "default" -> ChainAlone(NONE)
      [] op = "anonymous" -> Ok(NoCredentials)
      [] op = "from_sts_env" -> StsEnvAlone
      [] op = "from_sts" -> StsAlone
      [] op = "from_env" -> EnvAlone(Canonical)
      [] op = "from_env_specific" ->
            EnvAlone([i \in 1..4 |-> IF IsSome(args[i]) THEN args[i][1] ELSE Canonical[i]])
      [] op = "from_profile" -> ProfileExpected(args[1])
      [] op = "from_instance_metadata" -> ImdsAlone

\* Every finished invocation has returned what it returns when run alone.
ResultsAsAlone ==
    \A p \in DOMAIN proc : Done(p) => proc[p].res = Alone(proc[p].op, proc[p].args)

\* A step leaves the external state as it is and changes one invocation only.
StepIsLocal ==
    /\ world' = world
    /\ \A p, q \in DOMAIN proc :
        (p # q /\ proc'[p] # proc[p]) => proc'[q] = proc[q]

\* C11: no step of a constructor writes the environment, a file, the network
\* or the state of another invocation, and under every interleaving of the
\* steps of two concurrent invocations each returns what it returns alone.
C11_Concurrent == []ResultsAsAlone /\ [][StepIsLocal]_vars

C11_Witness ==
    /\ proc["p1"].op = "new" /\ proc["p1"].pc = "profile_load"
    /\ "p2" \in DOMAIN proc
    /\ proc["p2"].op = "from_instance_metadata" /\ proc["p2"].pc = "imds_creds_get"
    /\ proc["p1"].log # << >> /\ proc["p2"].log # << >>

\* The external reads of invocation p that failed.
FailedReads(p) ==
    {i \in 1..Len(proc[p].log) : ~proc[p].log[i].ok}

\* Each source is entered at most once by invocation p.
SourcesOnce(p) ==
    \A i, j \in 1..Len(proc[p].tried) :
        proc[p].tried[i] = proc[p].tried[j] => i = j

\* C12: within one invocation an external read that failed (a variable
\* lookup, a file read, an HTTP request) is not made a second time, and each
\* source is attempted at most once.
C12_NoRetry ==
    \A p \in DOMAIN proc :
        /\ \A i \in FailedReads(p) : \A j \in 1..Len(proc[p].log) :
            (j # i /\ proc[p].log[j].kind = proc[p].log[i].kind)
                => proc[p].log[j].name # proc[p].log[i].name
        /\ SourcesOnce(p)

\* The fields a record of each source cannot lack.
RequiredOf(src) ==
    CASE src \in {"sts", "sts_env"} ->
            {"access_key", "secret_key", "session_token", "expiration"}
      [] src = "imds" -> {"access_key", "secret_key", "security_token", "expiration"}
      [] OTHER -> {"access_key", "secret_key"}

\* The reader invocation p ends in had a step succeed and a later one fail.
FailsHalfway(p) ==
    CASE proc[p].src \in {"sts", "sts_env"} ->
            /\ proc[p].op = "from_sts" \/ StsEnvAlone.err # "VarError"
            /\ proc[p].op = "from_sts" \/ StsEnvAlone.err # "IoError"
            /\ net.sts.ok /\ \E k \in XmlKeys : net.sts.doc[k] = NONE
      [] proc[p].src = "profile" ->
            /\ IsSome(home) /\ ini.status = "ok"
            /\ RequestedSection(SectionArg(proc[p])) \in SectionNames
            /\ LET sec == ini.conf[RequestedSection(SectionArg(proc[p]))]
               IN  /\ sec.present
                   /\ "aws_access_key_id" \in sec.keys
                   /\ "aws_secret_access_key" \notin sec.keys
      [] proc[p].src = "imds" ->
            IF IsSome(env["AWS_CONTAINER_CREDENTIALS_RELATIVE_URI"])
            THEN net.ecs.ok /\ ~Complete(net.ecs)
            ELSE OnEc2 /\ net.role.ok /\ ~Complete(ImdsResponse)
      [] OTHER -> FALSE

\* C13: a reader that fails at some step after earlier steps succeeded returns
\* an error and no record of the values obtained so far; every record a reader
\* returns has all the fields its source requires.
C13_NoPartialRecord ==
    \A p \in DOMAIN proc :
        (Done(p) /\ ~IsDirect(p) /\ proc[p].op # "anonymous") =>
            LET r == proc[p].res
            IN  /\ FailsHalfway(p) => ~r.ok
                /\ ~r.ok => r.cred = NoCredentials
                /\ r.ok => \A f \in RequiredOf(proc[p].src) : IsSome(r.cred[f])

C13_Witness ==
    /\ Done("p1") /\ proc["p1"].op = "from_instance_metadata"
    /\ FailsHalfway("p1")
    /\ proc["p1"].role \in {RoleA, RoleB}
    /\ net.creds[net.role.text].ok
    /\ IsSome(net.creds[net.role.text].doc["AccessKeyId"])
    /\ proc["p1"].res = Err("JsonError", "creds")

\* C14: anonymous succeeds in its one step, in every external state, with the
\* record whose five fields are None, having looked up no variable, read no
\* file, issued no request and entered no source.
C14_Anonymous ==
    \A p \in DOMAIN proc :
        proc[p].op = "anonymous" =>
            /\ Done(p)
            /\ proc[p].res.ok
            /\ \A f \in DOMAIN proc[p].res.cred : proc[p].res.cred[f] = NONE
            /\ proc[p].log = << >>
            /\ proc[p].tried = << >>

\* anonymous has returned where the chain would have found credentials.
C14_Witness ==
    /\ proc["p1"].op = "anonymous" /\ Done("p1")
    /\ EnvSucceeds /\ StsEnvSucceeds /\ ProfileSucceeds(NONE) /\ ImdsSucceeds

\* The HTTP requests among the events of log, by position.
HttpAt(log) == {k \in 1..Len(log) : log[k].kind = "http"}

RoleGetName == <<Ec2Host>> \o RolePath

IsRoleGet(e) == e.kind = "http" /\ e.name = RoleGetName

\* A GET below the role-discovery path.
IsRoleCredsGet(e) ==
    /\ e.kind = "http"
    /\ Len(e.name) > Len(RoleGetName)
    /\ SubSeq(e.name, 1, Len(RoleGetName)) = RoleGetName

\* C15: from_instance_metadata issues at most 3 HTTP requests and from_sts
\* exactly 1; a role-credentials GET directly follows a role-discovery GET that
\* succeeded, and its path is the discovery path, "/" and the role name that
\* GET returned; after a failed role-discovery GET the reader issues nothing.
C15_Requests ==
    \A p \in DOMAIN proc :
        LET log == ReaderLog(p)
        IN  /\ proc[p].src = "imds" => Cardinality(HttpAt(log)) <= 3
            /\ (proc[p].op = "from_sts" /\ Done(p)) => Cardinality(HttpAt(log)) = 1
            /\ proc[p].op = "from_sts" => Cardinality(HttpAt(log)) <= 1
            /\ \A j \in 1..Len(log) :
                /\ IsRoleCredsGet(log[j]) =>
                    /\ j > 1 /\ IsRoleGet(log[j - 1]) /\ log[j - 1].ok
                    /\ log[j].name = RoleGetName \o <<"/">> \o net.role.text
                /\ (IsRoleGet(log[j]) /\ ~log[j].ok) =>
                    /\ j = Len(log)
                    /\ Done(p) \/ proc[p].src # "imds"

C15_Witness ==
    /\ proc["p1"].src = "imds" /\ Done("p1")
    /\ Cardinality(HttpAt(ReaderLog("p1"))) = 2
    /\ IsRoleCredsGet(proc["p1"].log[Len(proc["p1"].log)])
    /\ net.role.text = RoleB

IsStsGet(e) == e.kind = "http" /\ e.name[1] = StsHost

\* The three reads of from_sts_env, in the order of lines 111-113.
StsEnvReads(k) ==
    CASE k = 1 -> Event("env", <<"AWS_ROLE_ARN">>, IsSome(env["AWS_ROLE_ARN"]))
      [] k = 2 -> Event("env", <<"AWS_WEB_IDENTITY_TOKEN_FILE">>,
                        IsSome(env["AWS_WEB_IDENTITY_TOKEN_FILE"]))
      [] k = 3 -> Event("file", env["AWS_WEB_IDENTITY_TOKEN_FILE"],
                        files[env["AWS_WEB_IDENTITY_TOKEN_FILE"]] # UNREADABLE)

\* C16: from_sts_env reads AWS_ROLE_ARN, then AWS_WEB_IDENTITY_TOKEN_FILE,
\* then the file that variable names, and issues the STS request only as its
\* fourth operation, after all three have succeeded; when one of the three
\* fails the reader fails there, with nothing read after it and no request.
C16_StsEnvOrder ==
    \A p \in DOMAIN proc :
        (proc[p].tried # << >> /\ proc[p].tried[1] = "sts_env") =>
            LET log == proc[p].log
                own == proc[p].src = "sts_env"
            IN  /\ \A k \in 1..Len(log) :
                    /\ (k <= 3 /\ \A i \in 1..(k - 1) : log[i].ok) => log[k] = StsEnvReads(k)
                    /\ IsStsGet(log[k]) =>
                        /\ k = 4
                        /\ \A i \in 1..3 : log[i].ok
                        /\ log[k].name = <<StsHost>> \o
                              StsUrl(env["AWS_ROLE_ARN"], proc[p].session_name,
                                     files[env["AWS_WEB_IDENTITY_TOKEN_FILE"]]).path
                    /\ (k <= 3 /\ ~log[k].ok /\ \A i \in 1..(k - 1) : log[i].ok) =>
                        /\ \A j \in 1..Len(log) : ~IsStsGet(log[j])
                        /\ own => /\ Done(p) /\ Len(log) = k
                                  /\ proc[p].res =
                                        Err(IF k = 3 THEN "IoError" ELSE "VarError",
                                            CASE k = 1 -> "AWS_ROLE_ARN"
                                              [] k = 2 -> "AWS_WEB_IDENTITY_TOKEN_FILE"
                                              [] k = 3 -> "web_identity_token_file")
                        /\ ~own => /\ proc[p].tried[2] = "env"
                                   /\ Len(log) > k =>
                                        log[k + 1].name = <<"AWS_ACCESS_KEY_ID">>

\* The token file cannot be read: from_sts_env has failed at its third read.
C16_Witness ==
    /\ proc["p1"].op = "from_sts_env" /\ Done("p1")
    /\ Len(proc["p1"].log) = 3
    /\ proc["p1"].log[2].ok /\ ~proc["p1"].log[3].ok
    /\ net.sts.ok

\* C17: with AWS_CONTAINER_CREDENTIALS_RELATIVE_URI set, the instance-metadata
\* reader looks the variable up, issues one GET to 169.254.170.2 followed by
\* the variable's value, and returns the outcome of that GET and its parse; it
\* reads no file and sends nothing to 169.254.169.254, on failure too.
C17_EcsPath ==
    \A p \in DOMAIN proc :
        (proc[p].src = "imds" /\ IsSome(env["AWS_CONTAINER_CREDENTIALS_RELATIVE_URI"])) =>
            LET log == ReaderLog(p)
            IN  /\ proc[p].pc \in {"imds_env", "imds_ecs_get", "done"}
                /\ \A k \in 1..Len(log) :
                    /\ log[k].kind # "file"
                    /\ log[k].kind = "http" =>
                        /\ k = 2
                        /\ log[k].name = <<EcsHost>> \o
                                env["AWS_CONTAINER_CREDENTIALS_RELATIVE_URI"]
                        /\ log[k].name[1] # Ec2Host
                /\ Done(p) =>
                    /\ Len(log) = 2 /\ Cardinality(HttpAt(log)) = 1
                    /\ proc[p].res.ok <=> Complete(net.ecs)
                    /\ ~proc[p].res.ok =>
                        proc[p].res = Err(IF net.ecs.ok THEN "JsonError" ELSE "HttpError", "ecs")

\* The GET on ECS has failed on a machine whose probe file says EC2.
C17_Witness ==
    /\ proc["p1"].src = "imds" /\ Done("p1")
    /\ IsSome(env["AWS_CONTAINER_CREDENTIALS_RELATIVE_URI"])
    /\ ~proc["p1"].res.ok
    /\ OnEc2

\* The place of a source in the chain.
Place(src) == CHOOSE i \in 1..4 : Order[i] = src

\* The sources tried by invocation p are at most four, each later in the
\* chain than the one before.
NoReentry(p) ==
    /\ Len(proc[p].tried) <= 4
    /\ \A i, j \in 1..Len(proc[p].tried) :
        i < j => Place(proc[p].tried[i]) < Place(proc[p].tried[j])

\* C18: when every external operation returns, an invocation of new ends,
\* holding a record or an error; on the way it tries at most four sources
\* and none of them after a later one.
C18_Terminates ==
    /\ [](\A p \in Procs : proc[p].op = "new" => NoReentry(p))
    /\ \A p \in Procs : (proc[p].op = "new") ~> Done(p)

\* new has ended in the error of the fourth source.
C18_Witness ==
    /\ proc["p1"].op = "new" /\ Done("p1")
    /\ proc["p1"].tried = Order
    /\ ~proc["p1"].res.ok

\* The fields of a record, in the order of the arguments of from_env_specific.
FieldOf == <<"access_key", "secret_key", "security_token", "session_token">>

Keyless(p) == proc[p].op = "new" /\ proc[p].args[1] = NONE

FromArgument(v) == IsSome(v) /\ v[1] = "arg"

\* C20: two invocations of new without an access key that name the same
\* profile and run in the same external state hold the same result when both
\* have ended, whatever secret key, security token and session token each was
\* given, after the same external reads; no field of the record of such an
\* invocation is an argument.
C20_ArgumentsIgnored ==
    \A p, q \in DOMAIN proc :
        (Keyless(p) /\ Done(p)) =>
            /\ \A f \in DOMAIN proc[p].res.cred : ~FromArgument(proc[p].res.cred[f])
            /\ (Keyless(q) /\ Done(q) /\ proc[q].args[5] = proc[p].args[5]) =>
                /\ proc[q].res = proc[p].res
                /\ proc[q].log = proc[p].log

\* Two such invocations, one given the three arguments and one not, have both
\* ended with a record.
C20_Witness ==
    /\ "p2" \in DOMAIN proc
    /\ Keyless("p1") /\ Done("p1") /\ Keyless("p2") /\ Done("p2")
    /\ proc["p1"].args[5] = proc["p2"].args[5]
    /\ proc["p1"].args[2] = NONE /\ IsSome(proc["p2"].args[2])
    /\ IsSome(proc["p2"].args[3]) /\ IsSome(proc["p2"].args[4])
    /\ proc["p1"].res.ok
    /\ proc["p1"].res.cred.security_token = NONE

=============================================================================
